---- MODULE Spec2Model ----
(***************************************************************************)
(* climg: an image rendered as Unicode Braille glyphs (src/src/main.rs).   *)
(*                                                                         *)
(* The model covers fit_image (the target resolution, computed in f32),    *)
(* otsu_threshold (the global threshold, computed in f64), bit_if_on and   *)
(* the scan loop of get_image_matrix (the 2x4 bit packing).  The decoder,  *)
(* the Lanczos resampler and the luma conversion are library calls and are *)
(* not modelled: the rasterizer starts from the grayscale raster.          *)
(*                                                                         *)
(* Floating point is modelled bit-exactly (IEEE-754 binary32 and binary64, *)
(* round to nearest, ties to even) on natural numbers of arbitrary size,   *)
(* because the results of the code depend on the rounding: the exponent    *)
(* range is not modelled (no value here overflows or is subnormal).        *)
(***************************************************************************)
EXTENDS Integers, Sequences, FiniteSets

(***************************************************************************)
(* Natural numbers of arbitrary size: little-endian sequences of limbs in  *)
(* base 2^15, without leading (high) zero limbs.  They carry the           *)
(* significands of the floating-point values.                              *)
(***************************************************************************)
Base == 2^15
LimbBits == 3 * 5

RECURSIVE Pow2(_)
Pow2(k) == IF k = 0 THEN 1 ELSE 2 * Pow2(k - 1)

RECURSIVE BitLen(_)
BitLen(k) == IF k = 0 THEN 0 ELSE 1 + BitLen(k \div 2)

RECURSIVE BigNorm(_)
BigNorm(n) ==
    IF n = <<>> THEN <<>>
    ELSE IF n[Len(n)] = 0 THEN BigNorm(SubSeq(n, 1, Len(n) - 1))
    ELSE n

RECURSIVE BigFromInt(_)
BigFromInt(k) == IF k = 0 THEN <<>> ELSE <<k % Base>> \o BigFromInt(k \div Base)

RECURSIVE BigToInt(_)
BigToInt(n) == IF n = <<>> THEN 0 ELSE n[1] + Base * BigToInt(Tail(n))

Limb(n, i) == IF i <= Len(n) THEN n[i] ELSE 0

RECURSIVE BigAddC(_, _, _)
BigAddC(a, b, c) ==
    IF a = <<>> /\ b = <<>> THEN (IF c = 0 THEN <<>> ELSE <<c>>)
    ELSE LET s == Limb(a, 1) + Limb(b, 1) + c
         IN  <<s % Base>> \o BigAddC(IF a = <<>> THEN a ELSE Tail(a),
                                     IF b = <<>> THEN b ELSE Tail(b),
                                     s \div Base)

BigAdd(a, b) == BigAddC(a, b, 0)

\* a - b for a >= b
RECURSIVE BigSubB(_, _, _)
BigSubB(a, b, c) ==
    IF a = <<>> THEN <<>>
    ELSE LET d == a[1] - Limb(b, 1) - c
         IN  <<IF d < 0 THEN d + Base ELSE d>>
             \o BigSubB(Tail(a), IF b = <<>> THEN b ELSE Tail(b),
                        IF d < 0 THEN 1 ELSE 0)

BigSub(a, b) == BigNorm(BigSubB(a, b, 0))

\* a * d + c for one limb d
RECURSIVE BigMulSmall(_, _, _)
BigMulSmall(a, d, c) ==
    IF a = <<>> THEN (IF c = 0 THEN <<>> ELSE <<c>>)
    ELSE LET s == a[1] * d + c
         IN  <<s % Base>> \o BigMulSmall(Tail(a), d, s \div Base)

RECURSIVE BigMulR(_, _)
BigMulR(a, b) ==
    IF b = <<>> THEN <<>>
    ELSE BigAdd(BigMulSmall(a, b[1], 0), <<0>> \o BigMulR(a, Tail(b)))

BigMul(a, b) == BigNorm(BigMulR(a, b))

\* -1, 0, 1 as a < b, a = b, a > b
RECURSIVE BigCmpFrom(_, _, _)
BigCmpFrom(a, b, i) ==
    IF i = 0 THEN 0
    ELSE IF a[i] > b[i] THEN 1
    ELSE IF a[i] < b[i] THEN -1
    ELSE BigCmpFrom(a, b, i - 1)

BigCmp(a, b) ==
    IF Len(a) > Len(b) THEN 1
    ELSE IF Len(a) < Len(b) THEN -1
    ELSE BigCmpFrom(a, b, Len(a))

BigBitLen(n) ==
    IF n = <<>> THEN 0 ELSE LimbBits * (Len(n) - 1) + BitLen(n[Len(n)])

Zeros(k) == [i \in 1..k |-> 0]

\* n * 2^s
BigShl(n, s) ==
    BigNorm(Zeros(s \div LimbBits) \o BigMulSmall(n, Pow2(s % LimbBits), 0))

\* floor(n / 2^s)
BigShr(n, s) ==
    LET k == s \div LimbBits
        r == s % LimbBits
        d == IF k >= Len(n) THEN <<>> ELSE SubSeq(n, k + 1, Len(n))
    IN  BigNorm([i \in 1..Len(d) |->
                    (d[i] \div Pow2(r))
                    + (Limb(d, i + 1) % Pow2(r)) * Pow2(LimbBits - r)])

\* n mod 2^s
BigLow(n, s) ==
    LET k == s \div LimbBits
        r == s % LimbBits
    IN  IF k >= Len(n) THEN n
        ELSE BigNorm(SubSeq(n, 1, k) \o <<n[k + 1] % Pow2(r)>>)

BigOdd(n) == n # <<>> /\ n[1] % 2 = 1

(***************************************************************************)
(* Floating point.  A value is [m |-> significand, e |-> exponent], the    *)
(* number m * 2^e, with m below 2^p for the precision p of the type        *)
(* (24: f32, 53: f64).  All values of the code modelled here are >= 0      *)
(* except m_b - m_f in otsu_threshold, which is kept as its magnitude.     *)
(***************************************************************************)
F32 == 24
F64 == 53

\* (n + a fraction in (0,1) when sticky) * 2^e, rounded to p bits, ties to even
FRoundTo(n, e, sticky, p) ==
    LET len == BigBitLen(n)
    IN  IF len <= p THEN [m |-> n, e |-> e]
        ELSE LET s    == len - p
                 q    == BigShr(n, s)
                 c    == BigCmp(BigLow(n, s), BigShl(<<1>>, s - 1))
                 up   == c > 0 \/ (c = 0 /\ (sticky \/ BigOdd(q)))
             IN  [m |-> IF up THEN BigAdd(q, <<1>>) ELSE q, e |-> e + s]

\* `k as f32`, `k as f64` for an unsigned integer k
FFromInt(k, p) == FRoundTo(BigFromInt(k), 0, FALSE, p)

FCmp(x, y) ==
    LET e == IF x.e < y.e THEN x.e ELSE y.e
    IN  BigCmp(BigShl(x.m, x.e - e), BigShl(y.m, y.e - e))

\* x - y for x >= y
FSub(x, y, p) ==
    LET e == IF x.e < y.e THEN x.e ELSE y.e
    IN  FRoundTo(BigSub(BigShl(x.m, x.e - e), BigShl(y.m, y.e - e)), e, FALSE, p)

FMul(x, y, p) == FRoundTo(BigMul(x.m, y.m), x.e + y.e, FALSE, p)

\* The digits of r/b in base 2^15 after the point, k of them, most significant
\* first, followed by the last remainder.
RECURSIVE FracDigits(_, _, _)
FracDigits(r, b, k) ==
    IF k = 0 THEN <<r>>
    ELSE <<(r * Base) \div b>> \o FracDigits((r * Base) % b, b, k - 1)

\* Five digits (75 bits) leave more than 53 significant bits for every quotient
\* at or above 2^-16, so the remainder only breaks ties.
DivDigits == 1 + 4

Reverse(s) == [i \in 1..Len(s) |-> s[Len(s) + 1 - i]]

\* a / b for integers a >= 0 and 0 < b <= 2^16 that the type holds exactly
FDivInt(a, b, p) ==
    LET ds == FracDigits(a % b, b, DivDigits)
        n  == BigNorm(Reverse(SubSeq(ds, 1, DivDigits)) \o BigFromInt(a \div b))
    IN  FRoundTo(n, -(LimbBits * DivDigits), ds[DivDigits + 1] # 0, p)

\* f32::round (half away from zero) followed by `as u32`, for x >= 0
FRoundInt(x) ==
    IF x.e >= 0 THEN BigToInt(BigShl(x.m, x.e))
    ELSE LET s == -x.e
         IN  IF s > BigBitLen(x.m) + 1 THEN 0
             ELSE BigToInt(BigShr(x.m, s))
                  + (IF BigCmp(BigLow(x.m, s), BigShl(<<1>>, s - 1)) >= 0
                     THEN 1 ELSE 0)

(***************************************************************************)
(* fit_image: the target resolution handed to the resampler.               *)
(***************************************************************************)
U16 == 2^16

\* unwrap_or((100, 200)) of get_terminal_size
DefaultCols == 100
DefaultRows == 200

\* A query result is [ok |-> TRUE, cols, rows] or [ok |-> FALSE]
unwrap_or_default(res) ==
    IF res.ok THEN <<res.cols, res.rows>> ELSE <<DefaultCols, DefaultRows>>

\* exceeds with the second scaling step missing
exceeds_never(target, limit) == FALSE

\* `target > terminal as u32`: the second scaling step is needed
exceeds(target, limit) == target > limit

min(a, b) == IF a <= b THEN a ELSE b

\* One = 1.0f32
One == FFromInt(1, F32)

\* (x as f32 * aspect).round() as u32
scale(x, aspect) == FRoundInt(FMul(FFromInt(x, F32), aspect, F32))

fit_image(image_width, image_height, size) ==
    LET terminal_height == (((size[2] - 2) % U16) * 4) % U16
        terminal_width  == (size[1] * 2) % U16
        aspect == FDivInt(image_height, image_width, F32)
    IN  IF FCmp(aspect, One) < 0 THEN
            LET target_height == scale(terminal_width, aspect)
            IN  IF exceeds(target_height, terminal_height) THEN
                    LET aspect2 == FDivInt(terminal_height, target_height, F32)
                    IN  [target_width  |-> scale(terminal_width, aspect2),
                         target_height |-> scale(target_height, aspect2)]
                ELSE [target_width  |-> terminal_width,
                      target_height |-> target_height]
        ELSE IF FCmp(aspect, One) > 0 THEN
            LET target_width == scale(terminal_height, aspect)
            IN  IF exceeds(target_width, terminal_width) THEN
                    LET aspect2 == FDivInt(terminal_width, target_width, F32)
                    IN  [target_width  |-> scale(target_width, aspect2),
                         target_height |-> scale(terminal_height, aspect2)]
                ELSE [target_width  |-> target_width,
                      target_height |-> terminal_height]
        ELSE
            LET target_height == min(terminal_height, terminal_width)
            IN  [target_width  |-> min(target_height, terminal_width),
                 target_height |-> target_height]

(***************************************************************************)
(* otsu_threshold.  A raster is [w, h, px] with px[<<x, y>>] in 0..255.    *)
(***************************************************************************)
Pixels(img) == (0..(img.w - 1)) \X (0..(img.h - 1))

hist(img) == [v \in 0..255 |-> Cardinality({q \in Pixels(img) : img.px[q] = v})]

\* The iterations lo..hi of a loop over the buckets, in increasing order, are
\* those of lo..mid followed by those of mid+1..hi.
Mid(lo, hi) == (lo + hi) \div 2

RECURSIVE SumRange(_, _, _)
SumRange(hs, lo, hi) ==
    IF lo = hi THEN lo * hs[lo]
    ELSE SumRange(hs, lo, Mid(lo, hi)) + SumRange(hs, Mid(lo, hi) + 1, hi)

\* sum_total: every term and partial sum is an integer f64 holds exactly
sum_total(hs) == SumRange(hs, 0, 255)

\* let mut max_var: f64 = -1.0
MinusOne == [m |-> <<1>>, e |-> 0, neg |-> TRUE]

\* the result for a raster without pixels
EmptyThreshold == 128

\* InitialThreshold with the search starting from the result for no pixels
InitialThreshold_empty == EmptyThreshold

\* let mut threshold: u8 = 0
InitialThreshold == 0


\* var_between > max_var
better(var_between, max_var) ==
    IF "neg" \in DOMAIN max_var THEN TRUE ELSE FCmp(var_between, max_var) > 0

\* w_b * w_f * (m_b - m_f) * (m_b - m_f), left to right; m_b <= m_f, and
\* rounding is symmetric in the sign, so the magnitude m_f - m_b is used.
var_between(w_b, w_f, sum_b, sumTotal) ==
    LET m_b == FDivInt(sum_b, w_b, F64)
        m_f == FDivInt(sumTotal - sum_b, w_f, F64)
        d   == FSub(m_f, m_b, F64)
    IN  FMul(FMul(FFromInt(w_b * w_f, F64), d, F64), d, F64)

\* One iteration of `for (t, &h) in hist.iter().enumerate()`; st.stop records
\* the break, after which no iteration runs.
otsu_step(hs, total, sumTotal, st, t) ==
    IF st.stop THEN st
    ELSE LET w_b == st.w_b + hs[t]
         IN  IF w_b = 0 THEN [st EXCEPT !.w_b = w_b]
             ELSE IF total - w_b = 0 THEN [st EXCEPT !.w_b = w_b, !.stop = TRUE]
             ELSE LET w_f   == total - w_b
                      sum_b == st.sum_b + t * hs[t]
                      v     == var_between(w_b, w_f, sum_b, sumTotal)
                  IN  IF better(v, st.max_var)
                      THEN [st EXCEPT !.w_b = w_b, !.sum_b = sum_b,
                                      !.max_var = v, !.threshold = t]
                      ELSE [st EXCEPT !.w_b = w_b, !.sum_b = sum_b]

RECURSIVE otsu_loop(_, _, _, _, _, _)
otsu_loop(hs, total, sumTotal, st, lo, hi) ==
    IF lo = hi THEN otsu_step(hs, total, sumTotal, st, lo)
    ELSE LET first == otsu_loop(hs, total, sumTotal, st, lo, Mid(lo, hi))
         IN  IF first.stop THEN first
             ELSE otsu_loop(hs, total, sumTotal, first, Mid(lo, hi) + 1, hi)

otsu_threshold(img) ==
    LET hs    == hist(img)
        total == img.w * img.h   \* u32; far below 2^32 for the rasters here
        st0   == [w_b |-> 0, sum_b |-> 0, max_var |-> MinusOne,
                  threshold |-> InitialThreshold, stop |-> FALSE]
    IN  IF total = 0 THEN EmptyThreshold
        ELSE otsu_loop(hs, total, sum_total(hs), st0, 0, 255).threshold

(***************************************************************************)
(* bit_if_on and the scan of get_image_matrix.                             *)
(***************************************************************************)
\* on with the sample at the threshold off
on_strict(v, t, invert) == IF invert THEN v <= t ELSE v > t

\* let on = if invert { v < t } else { v >= t }
on(v, t, invert) == IF invert THEN v < t ELSE v >= t

\* bit_if_on with invert applied to the samples outside the raster too
bit_if_on_unguarded(img, x, y, t, invert) ==
    IF x >= img.w \/ y >= img.h THEN (IF invert THEN 1 ELSE 0)
    ELSE IF on(img.px[<<x, y>>], t, invert) THEN 1 ELSE 0

bit_if_on(img, x, y, t, invert) ==
    IF x >= img.w \/ y >= img.h THEN 0
    ELSE IF on(img.px[<<x, y>>], t, invert) THEN 1 ELSE 0

\* step_by(4) of the rows, step_by(2) of the columns
col_step == 2

\* row_step with the rows stepped like the columns
row_step_as_columns == col_step

row_step == 4

\* 0x2800, the first Braille pattern
BrailleBase == 10240

\* block_bits with the bits numbered row by row
block_bits_by_rows(img, x, y, t, invert) ==
      bit_if_on(img, x, y, t, invert)
    + bit_if_on(img, x + 1, y, t, invert) * 2
    + bit_if_on(img, x, y + 1, t, invert) * 4
    + bit_if_on(img, x + 1, y + 1, t, invert) * 8
    + bit_if_on(img, x, y + 2, t, invert) * 16
    + bit_if_on(img, x + 1, y + 2, t, invert) * 32
    + bit_if_on(img, x, y + 3, t, invert) * 64
    + bit_if_on(img, x + 1, y + 3, t, invert) * 128

\* bits |= bit_if_on(..) << k, for the eight samples in the order of the code;
\* the shifted bits are distinct powers of two, so `|=` adds them.
block_bits(img, x, y, t, invert) ==
      bit_if_on(img, x, y, t, invert)
    + bit_if_on(img, x, y + 1, t, invert) * 2
    + bit_if_on(img, x, y + 2, t, invert) * 4
    + bit_if_on(img, x + 1, y, t, invert) * 8
    + bit_if_on(img, x + 1, y + 1, t, invert) * 16
    + bit_if_on(img, x + 1, y + 2, t, invert) * 32
    + bit_if_on(img, x, y + 3, t, invert) * 64
    + bit_if_on(img, x + 1, y + 3, t, invert) * 128

\* char::from_u32(0x2800 + bits as u32): always a valid scalar value
glyph(img, x, y, t, invert) == BrailleBase + block_bits(img, x, y, t, invert)

(***************************************************************************)
(* The inputs.                                                             *)
(***************************************************************************)
\* Source images of 1..MaxImageDim pixels a side
MaxImageDim == 16
\* Terminals of 1..MaxCols columns and 2..MaxRows rows.  With fewer than 2 rows
\* `terminal_height -= 2` overflows u16 (a panic in a debug build).
MaxCols == 6
MaxRows == 8

TerminalQueries ==
    {[ok |-> FALSE]}
    \cup {[ok |-> TRUE, cols |-> c, rows |-> r] : c \in 1..MaxCols, r \in 2..MaxRows}

Dims(n) == {d \in (1..n) \X (1..n) : d[1] * d[2] <= n}

RastersOver(d, levels) ==
    {[w |-> d[1], h |-> d[2], px |-> f] :
        f \in [(0..(d[1] - 1)) \X (0..(d[2] - 1)) -> levels]}

\* Grayscale rasters of at most MaxGrayPixels pixels over three dark levels
\* (every level between the darkest and the brightest is a candidate of the
\* threshold search); solid rasters and ramps of up to SolidW x SolidH pixels,
\* a ramp having the level (a*x + b*y + c) mod 3 at (x, y).
MaxGrayPixels == 6
GrayLevels == {0, 1, 2}
SolidW == 4
SolidH == 8
SolidLevels == {0, 128, 255}

\* Black and white rasters of at most MaxTwoTonePixels pixels.
MaxTwoTonePixels == 3
TwoToneLevels == {0, 255}

Ramp(d, a, b, c) ==
    [w |-> d[1], h |-> d[2],
     px |-> [q \in (0..(d[1] - 1)) \X (0..(d[2] - 1)) |-> (a * q[1] + b * q[2] + c) % 3]]

GrayRasters ==
    UNION {RastersOver(d, GrayLevels) : d \in Dims(MaxGrayPixels)}
    \cup {Ramp(d, a, b, c) : d \in (1..SolidW) \X (1..SolidH),
                             a \in GrayLevels, b \in GrayLevels, c \in GrayLevels}
    \cup UNION {RastersOver(d, TwoToneLevels) : d \in Dims(MaxTwoTonePixels)}
    \cup UNION {RastersOver(d, {v}) : d \in (1..SolidW) \X (1..SolidH), v \in SolidLevels}

\* Two-level rasters of at most MaxBlockPixels pixels, with the thresholds
\* below, at, between and above the two levels.
MaxBlockPixels == 10
BlockLevels == {64, 192}
Thresholds == {0, 64, 128, 192, 255}

BlockRasters == UNION {RastersOver(d, BlockLevels) : d \in Dims(MaxBlockPixels)}

NoRaster == [w |-> 0, h |-> 0, px |-> <<>>]

(***************************************************************************)
(* The state.                                                              *)
(***************************************************************************)
VARIABLES
    pc,             \* the place in the program
    image_width,    \* fit_image: img.width()
    image_height,   \* fit_image: img.height()
    terminal,       \* fit_image: the result of get_terminal_size()
    target,         \* fit_image: the resolution passed to img.resize
    gray,           \* get_image_matrix: the grayscale raster
    invert,         \* get_image_matrix: the second argument is "invert"
    t,              \* get_image_matrix: the threshold
    x, y,           \* get_image_matrix: the loop variables
    line,           \* get_image_matrix: the glyphs of the line being built
    out             \* the lines printed so far

vars == <<pc, image_width, image_height, terminal, target,
          gray, invert, t, x, y, line, out>>

fitVars == <<image_width, image_height, terminal, target>>
scanVars == <<gray, invert, t, x, y, line, out>>

(***************************************************************************)
(* fit_image as a program: the terminal is queried, the target computed.   *)
(***************************************************************************)
InitFit ==
    /\ pc = "query"
    /\ image_width \in 1..MaxImageDim
    /\ image_height \in 1..MaxImageDim
    /\ terminal = <<0, 0>>
    /\ target = [target_width |-> 0, target_height |-> 0]
    /\ gray = NoRaster /\ invert = FALSE /\ t = 0
    /\ x = 0 /\ y = 0 /\ line = <<>> /\ out = <<>>

\* get_terminal_size().unwrap_or((100, 200))
GetTerminalSize ==
    /\ pc = "query"
    /\ \E res \in TerminalQueries : terminal' = unwrap_or_default(res)
    /\ pc' = "fit"
    /\ UNCHANGED <<image_width, image_height, target>>
    /\ UNCHANGED scanVars

FitImage ==
    /\ pc = "fit"
    /\ target' = fit_image(image_width, image_height, terminal)
    /\ pc' = "fitted"
    /\ UNCHANGED <<image_width, image_height, terminal>>
    /\ UNCHANGED scanVars

NextFit == GetTerminalSize \/ FitImage

SpecFit == InitFit /\ [][NextFit]_vars

(***************************************************************************)
(* get_image_matrix from the grayscale raster on.                          *)
(***************************************************************************)
InitScanVars ==
    /\ x = 0 /\ y = 0 /\ line = <<>> /\ out = <<>>
    /\ image_width = 0 /\ image_height = 0
    /\ terminal = <<0, 0>>
    /\ target = [target_width |-> 0, target_height |-> 0]

Init ==
    /\ pc = "otsu"
    /\ gray \in GrayRasters
    /\ invert \in BOOLEAN
    /\ t = 0
    /\ InitScanVars

\* let t = otsu_threshold(&gray)
Threshold ==
    /\ pc = "otsu"
    /\ t' = otsu_threshold(gray)
    /\ pc' = "scan"
    /\ UNCHANGED <<gray, invert, x, y, line, out>>
    /\ UNCHANGED fitVars

\* One iteration of `for x in (0..w).step_by(2)`
PushGlyph ==
    /\ pc = "scan"
    /\ y < gray.h
    /\ x < gray.w
    /\ line' = Append(line, glyph(gray, x, y, t, invert))
    /\ x' = x + col_step
    /\ UNCHANGED <<pc, gray, invert, t, y, out>>
    /\ UNCHANGED fitVars

\* The end of the inner loop: println!("{line}"), and the next y
PrintLine ==
    /\ pc = "scan"
    /\ y < gray.h
    /\ x >= gray.w
    /\ out' = Append(out, line)
    /\ line' = <<>>
    /\ x' = 0
    /\ y' = y + row_step
    /\ UNCHANGED <<pc, gray, invert, t>>
    /\ UNCHANGED fitVars

\* The end of the outer loop: Ok(())
Finish ==
    /\ pc = "scan"
    /\ y >= gray.h
    /\ pc' = "done"
    /\ UNCHANGED <<gray, invert, t, x, y, line, out>>
    /\ UNCHANGED fitVars

Next == Threshold \/ PushGlyph \/ PrintLine \/ Finish

Spec == Init /\ [][Next]_vars

(***************************************************************************)
(* The scan alone, for any threshold.                                      *)
(***************************************************************************)
InitRaster ==
    /\ pc = "scan"
    /\ gray \in BlockRasters
    /\ invert \in BOOLEAN
    /\ t \in Thresholds
    /\ InitScanVars

NextRaster == PushGlyph \/ PrintLine \/ Finish

SpecRaster == InitRaster /\ [][NextRaster]_vars

(***************************************************************************)
(* Properties of fit_image (SpecFit).                                      *)
(***************************************************************************)
Fitted == pc = "fitted" /\ terminal[2] >= 3

GridWidth == 2 * terminal[1]
GridHeight == 4 * (terminal[2] - 2)

Abs(n) == IF n < 0 THEN -n ELSE n

\* C1: the target (w, h) keeps the aspect ratio of the source (W, H) within one
\* pixel, |h - w*H/W| <= 1 or |w - h*W/H| <= 1, and a source taller than wide
\* gets a target at least as tall as wide.
C1_AspectPreserved ==
    Fitted =>
        LET w == target.target_width
            h == target.target_height
            d == Abs(h * image_width - w * image_height)
        IN  /\ d <= image_width \/ d <= image_height
            /\ image_height > image_width => h >= w

\* C2: the target never exceeds the grid: w <= 2*columns and h <= 4*(rows-2).
C2_WithinGrid ==
    Fitted =>
        /\ target.target_width <= GridWidth
        /\ target.target_height <= GridHeight

\* The second scaling step was taken for a source wider than tall: the target
\* is as high as the grid and narrower than it.
C2_Witness ==
    /\ Fitted
    /\ image_height < image_width
    /\ target.target_width < GridWidth
    /\ target.target_width > 0
    /\ target.target_height = GridHeight

\* C3: both components of the target are positive.
C3_Positive ==
    Fitted => target.target_width >= 1 /\ target.target_height >= 1

(***************************************************************************)
(* Properties of otsu_threshold (Spec).                                    *)
(***************************************************************************)
Thresholded == pc \in {"scan", "done"}

Uniform(img) == \A p, q \in Pixels(img) : img.px[p] = img.px[q]

\* The two classes of the split at c, and the between-class variance
\* wB*wF*(mB-mF)^2 = (sumB*wF - sumF*wB)^2 / (wB*wF) as a fraction.
ClassB(img, c) == {q \in Pixels(img) : img.px[q] <= c}
ClassF(img, c) == {q \in Pixels(img) : img.px[q] > c}

RECURSIVE SumPx(_, _)
SumPx(img, qs) ==
    IF qs = {} THEN 0
    ELSE LET q == CHOOSE r \in qs : TRUE IN img.px[q] + SumPx(img, qs \ {q})

VarNum(img, c) ==
    LET n == SumPx(img, ClassB(img, c)) * Cardinality(ClassF(img, c))
             - SumPx(img, ClassF(img, c)) * Cardinality(ClassB(img, c))
    IN  n * n

VarDen(img, c) == Cardinality(ClassB(img, c)) * Cardinality(ClassF(img, c))

Candidates(img) == {c \in 0..255 : ClassB(img, c) # {} /\ ClassF(img, c) # {}}

Maximizers(img) ==
    {c \in Candidates(img) :
        \A u \in Candidates(img) :
            VarNum(img, u) * VarDen(img, c) <= VarNum(img, c) * VarDen(img, u)}

\* C4: for a raster with two distinct intensities the threshold is the lowest
\* candidate that maximizes the between-class variance.
C4_LowestMaximizer ==
    (Thresholded /\ ~Uniform(gray)) =>
        /\ t \in Maximizers(gray)
        /\ \A c \in Maximizers(gray) : t <= c

\* C5: for a raster of one intensity the threshold is 0.
C5_UniformZero == (Thresholded /\ Uniform(gray)) => t = 0

\* A white raster was thresholded: every bucket below 255 was skipped.
C5_Witness ==
    /\ pc = "done"
    /\ Uniform(gray)
    /\ gray.px[<<0, 0>>] = 255
    /\ gray.w * gray.h > 1

(***************************************************************************)
(* Properties of the scan (Spec and SpecRaster).                           *)
(***************************************************************************)
SolidBlack4x8 ==
    /\ pc = "done"
    /\ gray.w = 4 /\ gray.h = 8
    /\ \A q \in Pixels(gray) : gray.px[q] = 0
    /\ ~invert

\* C6 as stated: the 4x8 black raster gets the threshold 128, every sample is
\* off, and one line of two U+2800 glyphs is printed.
C6_Original ==
    SolidBlack4x8 => t = 128 /\ out = << <<10240, 10240>> >>

\* C6 as the code has it: the 4x8 black raster (4 wide, 8 high) gets the
\* threshold 0, every sample is on, and two lines of two U+28FF glyphs are
\* printed.
C6_SolidBlack ==
    SolidBlack4x8 => t = 0 /\ out = << <<10495, 10495>>, <<10495, 10495>> >>

C6_Witness == SolidBlack4x8 /\ Len(out) = 2

\* The table of the bit positions: bit b is the sample at offset BitOffset[b+1]
BitOffset ==
    << <<0, 0>>, <<0, 1>>, <<0, 2>>, <<1, 0>>, <<1, 1>>, <<1, 2>>, <<0, 3>>, <<1, 3>> >>

InRaster(bx, by, b) ==
    bx + BitOffset[b + 1][1] < gray.w /\ by + BitOffset[b + 1][2] < gray.h

\* The sample of bit b of the block at (bx, by) is on under the flag inv
SampleOn(bx, by, b, inv) ==
    LET v == gray.px[<<bx + BitOffset[b + 1][1], by + BitOffset[b + 1][2]>>]
    IN  IF inv THEN v < t ELSE v >= t

RECURSIVE MaskFrom(_, _, _, _)
MaskFrom(bx, by, b, inv) ==
    IF b > 7 THEN 0
    ELSE (IF InRaster(bx, by, b) /\ SampleOn(bx, by, b, inv) THEN Pow2(b) ELSE 0)
         + MaskFrom(bx, by, b + 1, inv)

ExpectedMask(bx, by, inv) == MaskFrom(bx, by, 0, inv)

Bit(n, b) == (n \div Pow2(b)) % 2

\* The glyphs emitted so far, as <<k, j, codepoint>>: glyph j of line k (from 1)
Emitted ==
    UNION {{<<k, j, out[k][j]>> : j \in 1..Len(out[k])} : k \in 1..Len(out)}
    \cup {<<Len(out) + 1, j, line[j]>> : j \in 1..Len(line)}

BlockX(g) == 2 * (g[2] - 1)
BlockY(g) == 4 * (g[1] - 1)

FullBlock(g) == BlockX(g) + 1 < gray.w /\ BlockY(g) + 3 < gray.h

\* C7: the glyph of a block inside the raster is U+2800 plus the mask of the
\* bit table, and every glyph lies in U+2800..U+28FF.
C7_BitPacking ==
    \A g \in Emitted :
        /\ g[3] \in 10240..10495
        /\ FullBlock(g) => g[3] = 10240 + ExpectedMask(BlockX(g), BlockY(g), invert)

\* A 2x4 raster whose only bright samples are (1,0) and (0,3): bits 3 and 6.
C7_Witness ==
    /\ pc = "done" /\ ~invert /\ t = 128
    /\ gray.w = 2 /\ gray.h = 4
    /\ {q \in Pixels(gray) : gray.px[q] = 192} = {<<1, 0>>, <<0, 3>>}
    /\ out = << <<10240 + 8 + 64>> >>

\* C8: in every block the bits of the samples outside the raster are 0 with and
\* without invert, and the bits of the samples inside are complemented by
\* invert.
C8_InvertComplement ==
    \A g \in Emitted :
        LET mine  == g[3] - 10240
            other == block_bits(gray, BlockX(g), BlockY(g), t, ~invert)
        IN  \A b \in 0..7 :
                IF InRaster(BlockX(g), BlockY(g), b)
                THEN /\ Bit(mine, b) = 1 - Bit(other, b)
                     /\ Bit(mine, b) = 1 <=> SampleOn(BlockX(g), BlockY(g), b, invert)
                ELSE Bit(mine, b) = 0 /\ Bit(other, b) = 0

\* A block that sticks out of the raster on the right or at the bottom was
\* emitted under invert with a sample on.
C8_Witness ==
    /\ invert
    /\ \E g \in Emitted :
        /\ ~FullBlock(g)
        /\ g[3] > 10240
        /\ (gray.w % 2 = 1 \/ gray.h % 4 # 0)

\* C9: the lines are printed top to bottom, line k (from 0) holding the rows
\* 4k..4k+3 in ceil(w/2) glyphs, glyph j holding the columns 2j..2j+1; at the
\* end ceil(h/4) lines are printed.
C9_Layout ==
    Thresholded =>
        /\ Len(out) = (IF pc = "done" THEN (gray.h + 3) \div 4 ELSE y \div 4)
        /\ \A k \in 1..Len(out) :
            /\ Len(out[k]) = (gray.w + 1) \div 2
            /\ \A j \in 1..Len(out[k]) :
                out[k][j] = 10240 + ExpectedMask(2 * (j - 1), 4 * (k - 1), invert)

\* A raster that is not solid was printed as two lines of two glyphs, the
\* four glyphs all different.
C9_Witness ==
    /\ pc = "done"
    /\ ~Uniform(gray)
    /\ Len(out) = 2
    /\ Len(out[1]) = 2
    /\ Cardinality({out[1][1], out[1][2], out[2][1], out[2][2]}) = 4

\* C10: without invert the samples that are on are the foreground class of the
\* split at t (intensity > t), so some sample is on and some is off.
C10_SplitAgrees ==
    (Thresholded /\ ~Uniform(gray) /\ ~invert) =>
        {q \in Pixels(gray) : bit_if_on(gray, q[1], q[2], t, invert) = 1}
            = ClassF(gray, t)
====
